---- MODULE Spec2Model ----
(***************************************************************************)
(* Repo.Sync of y10k: the orchestrator that mirrors an upstream yum        *)
(* repository into a local package directory.  One orchestrator thread     *)
(* runs the setup steps, the diff against the package directory and the    *)
(* completion loop; Download runs a pool of workers that report every job  *)
(* on an unbuffered channel.                                               *)
(***************************************************************************)
EXTENDS Naturals, Sequences, FiniteSets, TLC

VARIABLES
    repo,       \* the Repo descriptor: identity, URLs and filter rules
    upstream,   \* the package entries of the primary database
    disk,       \* the package directory: file name -> content or NoFile
    run,        \* which Sync call on this repository this is
    pc,         \* position of the orchestrator inside Sync, or at Validate
    err,        \* Sync's function-level err variable
    mkerr,      \* the err of the MkdirAll statement when Sync returns from it
    ret,        \* what Sync or Validate returned, "none" while it runs
    keyring,    \* "nil" or "loaded"
    files,      \* the ReadDir listing: set of file names
    packages,   \* the filtered package list
    vres,       \* while the diff loop runs: what the search found, per package so far
    missing,    \* packages to download
    jobs,       \* the DownloadJob slice
    jstate,     \* per job: "queued", "xfer", "ready" (blocked on the send), "reported"
    chan,       \* the complete channel: "none", "open", "closed"
    job,        \* the loop variable job while its file is being deleted, else 0
    log         \* per job: what the completion loop logged for it

vars == <<repo, upstream, disk, run, pc, err, mkerr, ret, keyring, files,
          packages, vres, missing, jobs, jstate, chan, job, log>>

----------------------------------------------------------------------------
(* Bounds of the model *)

\* longest primary database
MaxPkgs == 3
\* Sync calls in a row on one repository
MaxRuns == 2

(* Download's worker pool *)
NumWorkers == 2

----------------------------------------------------------------------------
(* Data *)

\* the content of a path that holds no file
NoFile == [exists |-> FALSE, sum |-> 0, sig |-> FALSE, by |-> 0]

\* file names (basenames) that occur in the package directory
Names == {"a", "b"}

\* A file is known by its digest, by whether its signature verifies against
\* the repository key, and by the job of this run that wrote it (0 for a file
\* that was there before).  Digest 0 is content no package declares.
Blob(sum, sig, by) == [exists |-> TRUE, sum |-> sum, sig |-> sig, by |-> by]

\* yum.PackageEntry: the database key, the location href (directory and
\* base name), the architecture, the declared checksum, the package name,
\* its version and its build time.  Entry 1 is a source package with a base
\* name of its own; entries 2 and 3 repeat one location and checksum; entry
\* 4 has their base name under another directory and declares another
\* checksum; entry 5 is architecture-independent and entry 6 is built for
\* another architecture.
Entry(k) ==
    CASE k = 1 -> [key |-> 1, dir |-> "d1", base |-> "b", arch |-> "src", sum |-> 2,
                   name |-> "b", ver |-> 1, time |-> 1]
      [] k = 4 -> [key |-> 4, dir |-> "d2", base |-> "a", arch |-> "x86_64", sum |-> 2,
                   name |-> "a", ver |-> 2, time |-> 2]
      [] k = 5 -> [key |-> 5, dir |-> "d1", base |-> "b", arch |-> "noarch", sum |-> 1,
                   name |-> "c", ver |-> 1, time |-> 3]
      [] k = 6 -> [key |-> 6, dir |-> "d1", base |-> "a", arch |-> "i686", sum |-> 2,
                   name |-> "a", ver |-> 1, time |-> 2]
      [] OTHER -> [key |-> k, dir |-> "d1", base |-> "a", arch |-> "x86_64", sum |-> 1,
                   name |-> "a", ver |-> 1, time |-> 1]

\* the entries a primary database is drawn from
Catalogue == <<Entry(1), Entry(2), Entry(3), Entry(4)>>

\* the same with entries of other architectures
MixedCatalogue == Catalogue \o <<Entry(5), Entry(6)>>

\* the primary databases considered: up to MaxPkgs consecutive entries of
\* the catalogue
Databases ==
    { SubSeq(Catalogue, w[1], w[1] + w[2] - 1) :
        w \in { v \in (1 .. Len(Catalogue)) \X (0 .. MaxPkgs) :
                  v[1] + v[2] - 1 <= Len(Catalogue) } }

\* the primary databases that the filter rules are tried on
MixedDatabases ==
    { SubSeq(MixedCatalogue, w[1], w[1] + w[2] - 1) :
        w \in { v \in (1 .. Len(MixedCatalogue)) \X (0 .. MaxPkgs) :
                  v[1] + v[2] - 1 <= Len(MixedCatalogue) } }

\* Repo descriptors that Validate accepts, with no filter rule but the
\* source rule
ValidRepos ==
    [ID : {"r1"}, Name : {"r1"}, BaseURL : {"u"}, MirrorURL : {""},
     GPGCheck : BOOLEAN, IncludeSources : BOOLEAN, Architecture : {""},
     MinDate : {0}, MaxDate : {0}, NewOnly : {FALSE}]

\* Repo descriptors as a Yumfile may define them: ID, name and URLs given
\* or not
Descriptors ==
    [ID : {"", "r1", "r2"}, Name : {"", "n"}, BaseURL : {"", "u"}, MirrorURL : {"", "m"},
     GPGCheck : BOOLEAN, IncludeSources : BOOLEAN, Architecture : {""},
     MinDate : {0}, MaxDate : {0}, NewOnly : {FALSE}]

\* valid descriptors with filter rules; a date of 0 is the zero time.Time,
\* a bound that is not set
FilterRepos ==
    [ID : {"r1"}, Name : {"r1"}, BaseURL : {"u"}, MirrorURL : {""},
     GPGCheck : {FALSE}, IncludeSources : BOOLEAN, Architecture : {"", "x86_64"},
     MinDate : {0, 2}, MaxDate : {0, 2}, NewOnly : BOOLEAN]

\* files the package directory may hold before the first Sync
InitialContents == {NoFile, Blob(1, TRUE, 0), Blob(2, TRUE, 0)}

SeqOf(n, v) == [i \in 1 .. n |-> v]

----------------------------------------------------------------------------
(* Library functions *)

\* filepath.Base(p.LocationHref())
BaseName(p) == p.base

\* filepath.Join(packagedir, filepath.Base(p.LocationHref())): inside one
\* package directory a path is known by its base name
JoinPath(p) == BaseName(p)

\* yum.ValidateFileChecksum(path, sum, type) on the file system d, with the
\* read of the file succeeding (io = TRUE) or not
ValidateFileChecksum(d, path, sum, io) ==
    IF ~d[path].exists \/ ~io THEN "ErrIO"
    ELSE IF d[path].sum = sum THEN "nil"
    ELSE "ErrChecksumMismatch"

\* newest-only reduction: of the entries of one name and architecture the
\* one of the highest version stays, the first of them when it is repeated
Newest(pkgs) ==
    LET Idx == {i \in 1 .. Len(pkgs) :
                  \A k \in 1 .. Len(pkgs) :
                      (pkgs[k].name = pkgs[i].name /\ pkgs[k].arch = pkgs[i].arch) =>
                          (pkgs[k].ver < pkgs[i].ver
                           \/ (pkgs[k].ver = pkgs[i].ver /\ k >= i))}
        Pos(n) == CHOOSE i \in Idx : Cardinality({k \in Idx : k < i}) = n - 1
    IN [n \in 1 .. Cardinality(Idx) |-> pkgs[Pos(n)]]

\* FilterPackages(c, packages): the architecture rule, which keeps the
\* architecture-independent entries, the source rule, the date bounds and
\* the newest-only reduction, in this order
FilterPackages(c, pkgs) ==
    LET ArchOk(p) == c.Architecture = "" \/ p.arch \in {c.Architecture, "noarch"}
        SrcOk(p) == c.IncludeSources \/ p.arch # "src"
        DateOk(p) == /\ (c.MinDate = 0 \/ p.time >= c.MinDate)
                     /\ (c.MaxDate = 0 \/ p.time <= c.MaxDate)
        Keep(p) == ArchOk(p) /\ SrcOk(p) /\ DateOk(p)
        kept == SelectSeq(pkgs, Keep)
    IN IF c.NewOnly THEN Newest(kept) ELSE kept

\* os.Open then rpm.GPGCheck(f, keyring) on content b: "ErrOpen", "ErrGPG"
\* or "nil".  With a loaded keyring the signature decides; with the nil
\* keyring of an unchecked repository the library's answer is not fixed by
\* this code, and sig stands for either answer.
GPGCheck(b, kr, sig) ==
    IF kr = "loaded" THEN (IF b.sig THEN "nil" ELSE "ErrGPG")
    ELSE (IF sig THEN "nil" ELSE "ErrGPG")

----------------------------------------------------------------------------
(* Initial state: a validated Repo, a primary database upstream, a package *)
(* directory left by earlier runs, and Sync about to be called.            *)

Locals ==
    pc = "LoadKeyring" /\ err = "nil" /\ mkerr = "nil" /\ ret = "none"
    /\ keyring = "nil" /\ files = {} /\ packages = <<>> /\ vres = <<>>
    /\ missing = <<>> /\ jobs = <<>> /\ jstate = <<>> /\ chan = "none"
    /\ job = 0 /\ log = <<>>

Init ==
    /\ repo \in ValidRepos
    /\ upstream \in Databases
    /\ disk \in [Names -> InitialContents]
    /\ run = 1
    /\ Locals

----------------------------------------------------------------------------
(* Setup: Sync, lines 93-134 *)

\* return of an error from Sync
Fail(e) ==
    /\ pc' = "Return"
    /\ ret' = e

\* load gpg keys
LoadKeyring ==
    /\ pc = "LoadKeyring"
    /\ IF repo.GPGCheck
       THEN \E r \in {"nil", "ErrKeyRing"} :
              /\ err' = r
              /\ IF r # "nil"
                 THEN Fail(r) /\ UNCHANGED keyring
                 ELSE pc' = "CacheLocal" /\ keyring' = "loaded" /\ UNCHANGED ret
       ELSE pc' = "CacheLocal" /\ UNCHANGED <<err, keyring, ret>>
    /\ UNCHANGED <<repo, upstream, disk, run, mkerr, files, packages, vres,
                   missing, jobs, jstate, chan, job, log>>

\* cache repo metadata locally
CacheLocal ==
    /\ pc = "CacheLocal"
    /\ \E r \in {"nil", "ErrCache"} :
         /\ err' = r
         /\ IF r # "nil" THEN Fail("ErrCacheMetadata")
            ELSE pc' = "PrimaryDB" /\ UNCHANGED ret
    /\ UNCHANGED <<repo, upstream, disk, run, mkerr, keyring, files, packages,
                   vres, missing, jobs, jstate, chan, job, log>>

\* get primary db from cache
PrimaryDB ==
    /\ pc = "PrimaryDB"
    /\ \E r \in {"nil", "ErrPrimaryDB"} :
         /\ err' = r
         /\ IF r # "nil" THEN Fail(r)
            ELSE pc' = "MkdirAll" /\ UNCHANGED ret
    /\ UNCHANGED <<repo, upstream, disk, run, mkerr, keyring, files, packages,
                   vres, missing, jobs, jstate, chan, job, log>>

\* create package directory; an error that os.IsExist accepts is passed over
MkdirAll ==
    /\ pc = "MkdirAll"
    /\ \E r \in {"nil", "ErrExist", "ErrMkdir"} :
         /\ IF r # "nil" /\ r # "ErrExist"
            THEN mkerr' = r /\ Fail("ErrCreatePath")
            ELSE pc' = "ReadDir" /\ UNCHANGED <<mkerr, ret>>
    /\ UNCHANGED <<repo, upstream, disk, run, err, keyring, files, packages,
                   vres, missing, jobs, jstate, chan, job, log>>

\* ReadDir with its error dropped: files, _ := ioutil.ReadDir(packagedir)
ReadDirIgnoringError ==
    /\ pc = "ReadDir"
    /\ \E r \in {"nil", "ErrReadDir"} :
         /\ err' = r
         /\ files' = IF r = "nil" THEN {n \in Names : disk[n].exists} ELSE {}
         /\ pc' = "Packages"
    /\ UNCHANGED <<repo, upstream, disk, run, mkerr, ret, keyring, packages,
                   vres, missing, jobs, jstate, chan, job, log>>

\* list existing files
ReadDir ==
    /\ pc = "ReadDir"
    /\ \E r \in {"nil", "ErrReadDir"} :
         /\ err' = r
         /\ IF r # "nil"
            THEN Fail("ErrReadingPackages") /\ UNCHANGED files
            ELSE /\ files' = {n \in Names : disk[n].exists}
                 /\ pc' = "Packages"
                 /\ UNCHANGED ret
    /\ UNCHANGED <<repo, upstream, disk, run, mkerr, keyring, packages,
                   vres, missing, jobs, jstate, chan, job, log>>

\* Packages without the call of FilterPackages
PackagesUnfiltered ==
    /\ pc = "Packages"
    /\ \E r \in {"nil", "ErrPackages"} :
         /\ err' = r
         /\ IF r # "nil"
            THEN Fail("ErrReadingPrimaryDB") /\ UNCHANGED packages
            ELSE /\ packages' = upstream
                 /\ pc' = "Diff"
                 /\ UNCHANGED ret
    /\ UNCHANGED <<repo, upstream, disk, run, mkerr, keyring, files,
                   vres, missing, jobs, jstate, chan, job, log>>

\* load packages from primary_db and filter the list
Packages ==
    /\ pc = "Packages"
    /\ \E r \in {"nil", "ErrPackages"} :
         /\ err' = r
         /\ IF r # "nil"
            THEN Fail("ErrReadingPrimaryDB") /\ UNCHANGED packages
            ELSE /\ packages' = FilterPackages(repo, upstream)
                 /\ pc' = "Diff"
                 /\ UNCHANGED ret
    /\ UNCHANGED <<repo, upstream, disk, run, mkerr, keyring, files,
                   vres, missing, jobs, jstate, chan, job, log>>

----------------------------------------------------------------------------
(* Diff and job construction: Sync, lines 136-189 *)

\* what the search of the listing finds for package p: "absent" when no
\* listed file has its name, else the result of the checksum validation
SearchLocal(p, io) ==
    IF BaseName(p) \in files
    THEN ValidateFileChecksum(disk, JoinPath(p), p.sum, io)
    ELSE "absent"

\* found that is never set
FoundNever(r) == FALSE

\* found set on the name match alone, whatever the checksum validation says
FoundByName(r) == r # "absent"

\* found, line 162: a listed file has the name and its checksum is valid
Found(r) == r = "nil"

\* DiffStep with the deletion of a file that failed the validation
DiffStepRemovingInvalid ==
    /\ pc = "Diff"
    /\ Len(vres) < Len(packages)
    /\ LET p == packages[Len(vres) + 1] IN
       \E io \in BOOLEAN :
         LET r == SearchLocal(p, io) IN
           /\ vres' = Append(vres, r)
           /\ err' = IF r = "absent" THEN err ELSE r
           /\ missing' = IF Found(r) THEN missing ELSE Append(missing, p)
           /\ disk' = IF r = "ErrChecksumMismatch"
                      THEN [disk EXCEPT ![JoinPath(p)] = NoFile]
                      ELSE disk
    /\ UNCHANGED <<repo, upstream, run, pc, mkerr, ret, keyring, files,
                   packages, jobs, jstate, chan, job, log>>

\* one iteration of the loop over packages
DiffStep ==
    /\ pc = "Diff"
    /\ Len(vres) < Len(packages)
    /\ LET p == packages[Len(vres) + 1] IN
       \E io \in BOOLEAN :
         LET r == SearchLocal(p, io) IN
           /\ vres' = Append(vres, r)
           /\ err' = IF r = "absent" THEN err ELSE r
           /\ missing' = IF Found(r) THEN missing ELSE Append(missing, p)
    /\ UNCHANGED <<repo, upstream, disk, run, pc, mkerr, ret, keyring, files,
                   packages, jobs, jstate, chan, job, log>>

\* the DownloadJob of package p
NewJob(p) ==
    [Label |-> p.key, URL |-> <<p.dir, p.base>>, Path |-> JoinPath(p),
     Checksum |-> p.sum, Error |-> "nil"]

\* Schedule with Download called in place, without go: Sync is inside
\* Download and nothing receives from the channel
ScheduleBlocking ==
    /\ pc = "Diff"
    /\ Len(vres) = Len(packages)
    /\ jobs' = [i \in 1 .. Len(missing) |-> NewJob(missing[i])]
    /\ vres' = <<>>
    /\ jstate' = SeqOf(Len(missing), "queued")
    /\ log' = SeqOf(Len(missing), "none")
    /\ chan' = "open"
    /\ pc' = "Download"
    /\ UNCHANGED <<repo, upstream, disk, run, err, mkerr, ret, keyring, files,
                   packages, missing, job>>

\* the loop over packages is over: schedule download jobs, make the channel
\* and start Download
Schedule ==
    /\ pc = "Diff"
    /\ Len(vres) = Len(packages)
    /\ jobs' = [i \in 1 .. Len(missing) |-> NewJob(missing[i])]
    /\ vres' = <<>>
    /\ jstate' = SeqOf(Len(missing), "queued")
    /\ log' = SeqOf(Len(missing), "none")
    /\ chan' = "open"
    /\ pc' = "Await"
    /\ UNCHANGED <<repo, upstream, disk, run, err, mkerr, ret, keyring, files,
                   packages, missing, job>>

----------------------------------------------------------------------------
(* Download: a pool of NumWorkers workers takes the jobs in order, fetches *)
(* each to its path and sends it on the channel; the channel is closed     *)
(* when every job has been sent.                                           *)

JobIds == 1 .. Len(jobs)

InFlight == {j \in JobIds : jstate[j] \in {"xfer", "ready"}}

\* a goroutine per job: the next job of the queue is taken at once
WorkerTakeUnbounded(j) ==
    /\ chan = "open"
    /\ jstate[j] = "queued"
    /\ \A k \in 1 .. (j - 1) : jstate[k] # "queued"
    /\ jstate' = [jstate EXCEPT ![j] = "xfer"]
    /\ UNCHANGED <<repo, upstream, disk, run, pc, err, mkerr, ret, keyring,
                   files, packages, vres, missing, jobs, chan, job, log>>

\* a free worker takes the next job of the queue
WorkerTake(j) ==
    /\ chan = "open"
    /\ jstate[j] = "queued"
    /\ \A k \in 1 .. (j - 1) : jstate[k] # "queued"
    /\ Cardinality(InFlight) < NumWorkers
    /\ jstate' = [jstate EXCEPT ![j] = "xfer"]
    /\ UNCHANGED <<repo, upstream, disk, run, pc, err, mkerr, ret, keyring,
                   files, packages, vres, missing, jobs, chan, job, log>>

\* the transfer of job j fails: the job carries the error, and the partly
\* written file may be left at the path
TransferFail(j) ==
    /\ jstate[j] = "xfer"
    /\ jobs' = [jobs EXCEPT ![j].Error = "ErrTransfer"]
    /\ jstate' = [jstate EXCEPT ![j] = "ready"]
    /\ \E partial \in BOOLEAN :
         disk' = IF partial THEN [disk EXCEPT ![jobs[j].Path] = Blob(0, FALSE, j)]
                 ELSE disk
    /\ UNCHANGED <<repo, upstream, run, pc, err, mkerr, ret, keyring,
                   files, packages, vres, missing, chan, job, log>>

\* the transfer of job j completes: the path holds what the server sent,
\* the declared content or other content, signed by the repository key or not
TransferOk(j) ==
    /\ jstate[j] = "xfer"
    /\ jstate' = [jstate EXCEPT ![j] = "ready"]
    /\ \E sum \in {jobs[j].Checksum, 0}, sig \in BOOLEAN :
         disk' = [disk EXCEPT ![jobs[j].Path] = Blob(sum, sig, j)]
    /\ UNCHANGED <<repo, upstream, run, pc, err, mkerr, ret, keyring,
                   files, packages, vres, missing, jobs, chan, job, log>>

\* close(complete) as soon as no job is left in the queue
CloseWhenQueueEmpty ==
    /\ chan = "open"
    /\ \A j \in JobIds : jstate[j] # "queued"
    /\ chan' = "closed"
    /\ UNCHANGED <<repo, upstream, disk, run, pc, err, mkerr, ret, keyring,
                   files, packages, vres, missing, jobs, jstate, job, log>>

\* every job has been sent: close(complete)
Close ==
    /\ chan = "open"
    /\ \A j \in JobIds : jstate[j] = "reported"
    /\ chan' = "closed"
    /\ UNCHANGED <<repo, upstream, disk, run, pc, err, mkerr, ret, keyring,
                   files, packages, vres, missing, jobs, jstate, job, log>>

----------------------------------------------------------------------------
(* The completion loop: Sync, lines 195-223 *)

\* a download error that makes Sync return it
OnDownloadErrorReturn(j) ==
    /\ log' = [log EXCEPT ![j] = "ErrDownload"]
    /\ pc' = "Return"
    /\ ret' = jobs[j].Error
    /\ job' = 0

\* a download error that ends the loop
OnDownloadErrorBreak(j) ==
    /\ log' = [log EXCEPT ![j] = "ErrDownload"]
    /\ pc' = "Return"
    /\ ret' = "nil"
    /\ job' = 0

\* a download error that is followed by the deletion of the job's file
OnDownloadErrorRemove(j) ==
    /\ log' = [log EXCEPT ![j] = "ErrDownload"]
    /\ pc' = "Remove"
    /\ job' = j
    /\ UNCHANGED ret

\* a download error that sends Sync back to the diff, to schedule again
OnDownloadErrorRediff(j) ==
    /\ log' = [log EXCEPT ![j] = "ErrDownload"]
    /\ pc' = "Diff"
    /\ job' = 0
    /\ UNCHANGED ret

\* if job.Error != nil: the error is logged and the loop goes on
OnDownloadError(j) ==
    /\ log' = [log EXCEPT ![j] = "ErrDownload"]
    /\ pc' = "Await"
    /\ job' = 0
    /\ UNCHANGED ret

\* for job := range complete: the send of worker's job j meets the receive,
\* and the body of the loop runs up to the gpg check
Receive(j) ==
    /\ pc = "Await"
    /\ chan = "open"
    /\ jstate[j] = "ready"
    /\ jstate' = [jstate EXCEPT ![j] = "reported"]
    /\ IF jobs[j].Error # "nil"
       THEN OnDownloadError(j)
       ELSE /\ UNCHANGED ret
            /\ \E open \in BOOLEAN, sig \in BOOLEAN :
              LET b == disk[jobs[j].Path] IN
                IF ~b.exists \/ ~open
                THEN /\ log' = [log EXCEPT ![j] = "ErrOpen"]
                     /\ pc' = "Await"
                     /\ job' = 0
                ELSE IF GPGCheck(b, keyring, sig) # "nil"
                THEN /\ log' = [log EXCEPT ![j] = "ErrGPG"]
                     /\ pc' = "Remove"
                     /\ job' = j
                ELSE /\ log' = [log EXCEPT ![j] = "ok"]
                     /\ pc' = "Await"
                     /\ job' = 0
    /\ UNCHANGED <<repo, upstream, disk, run, err, mkerr, keyring,
                   files, packages, vres, missing, jobs, chan>>

\* Remove without the os.Remove call
RemoveSkipped ==
    /\ pc = "Remove"
    /\ pc' = "Await"
    /\ job' = 0
    /\ UNCHANGED <<repo, upstream, disk, run, err, mkerr, ret, keyring, log,
                   files, packages, vres, missing, jobs, jstate, chan>>

\* delete bad package, and on to the next iteration
Remove ==
    /\ pc = "Remove"
    /\ \E rm \in BOOLEAN :
         IF rm /\ disk[jobs[job].Path].exists
         THEN /\ disk' = [disk EXCEPT ![jobs[job].Path] = NoFile]
              /\ UNCHANGED log
         ELSE /\ log' = [log EXCEPT ![job] = "ErrGPG+ErrRemove"]
              /\ UNCHANGED disk
    /\ pc' = "Await"
    /\ job' = 0
    /\ UNCHANGED <<repo, upstream, run, err, mkerr, ret, keyring,
                   files, packages, vres, missing, jobs, jstate, chan>>

\* the channel is closed: the loop ends and Sync returns nil
Done ==
    /\ pc = "Await"
    /\ chan = "closed"
    /\ pc' = "Return"
    /\ ret' = "nil"
    /\ UNCHANGED <<repo, upstream, disk, run, err, mkerr, keyring,
                   files, packages, vres, missing, jobs, jstate, chan, job, log>>

----------------------------------------------------------------------------

Next ==
    \/ LoadKeyring
    \/ CacheLocal
    \/ PrimaryDB
    \/ MkdirAll
    \/ ReadDir
    \/ Packages
    \/ DiffStep
    \/ Schedule
    \/ \E j \in JobIds : WorkerTake(j)
    \/ \E j \in JobIds : TransferFail(j)
    \/ \E j \in JobIds : TransferOk(j)
    \/ Close
    \/ \E j \in JobIds : Receive(j)
    \/ Remove
    \/ Done

Spec == Init /\ [][Next]_vars

\* the scheduler runs a goroutine that can take a step, and transfers end
LiveSpec == Init /\ [][Next]_vars /\ WF_vars(Next)

----------------------------------------------------------------------------
(* Sync called again on the same repository after a run that returned nil, *)
(* with the primary database and the package directory as that run left    *)
(* them.                                                                   *)

\* the package directory as the next run finds it: every file was there before
Settled(d) == [n \in Names |-> IF d[n].exists THEN [d[n] EXCEPT !.by = 0] ELSE NoFile]

Rerun ==
    /\ pc = "Return"
    /\ ret = "nil"
    /\ run < MaxRuns
    /\ run' = run + 1
    /\ disk' = Settled(disk)
    /\ pc' = "LoadKeyring" /\ err' = "nil" /\ mkerr' = "nil" /\ ret' = "none"
    /\ keyring' = "nil" /\ files' = {} /\ packages' = <<>> /\ vres' = <<>>
    /\ missing' = <<>> /\ jobs' = <<>> /\ jstate' = <<>> /\ chan' = "none"
    /\ job' = 0 /\ log' = <<>>
    /\ UNCHANGED <<repo, upstream>>

NextRerun == Next \/ Rerun

SpecRerun == Init /\ [][NextRerun]_vars

----------------------------------------------------------------------------
(* The filter and the diff of a Sync that has listed the package directory, *)
(* for descriptors with filter rules and databases of mixed architectures.  *)

InitFilter ==
    /\ repo \in FilterRepos
    /\ upstream \in MixedDatabases
    /\ disk \in [Names -> InitialContents]
    /\ run = 1
    /\ pc = "Packages" /\ err = "nil" /\ mkerr = "nil" /\ ret = "none"
    /\ keyring = "nil" /\ files = {n \in Names : disk[n].exists}
    /\ packages = <<>> /\ vres = <<>>
    /\ missing = <<>> /\ jobs = <<>> /\ jstate = <<>> /\ chan = "none"
    /\ job = 0 /\ log = <<>>

NextFilter == Packages \/ DiffStep \/ Schedule

SpecFilter == InitFilter /\ [][NextFilter]_vars

----------------------------------------------------------------------------
(* Validate, called on a descriptor when its Yumfile has been read.  Repo   *)
(* and YumRepoMirror (whose ID, Name, BaseURL and MirrorListURL are those   *)
(* of its YumRepo) are the same record here.                                *)

\* the error of a descriptor with an empty ID or with both URLs empty
ValidateErrorEitherURL(d) ==
    IF d.ID = "" THEN "ErrNoID"
    ELSE IF d.MirrorURL = "" \/ d.BaseURL = "" THEN "ErrNoURL"
    ELSE "nil"

\* the two checks both Validate methods start with
ValidateError(d) ==
    IF d.ID = "" THEN "ErrNoID"
    ELSE IF d.MirrorURL = "" /\ d.BaseURL = "" THEN "ErrNoURL"
    ELSE "nil"

\* a descriptor is about to be validated, and no Sync runs
InitValidate ==
    /\ repo \in Descriptors
    /\ upstream = <<>>
    /\ disk = [n \in Names |-> NoFile]
    /\ run = 1
    /\ pc = "Validate" /\ err = "nil" /\ mkerr = "nil" /\ ret = "none"
    /\ keyring = "nil" /\ files = {} /\ packages = <<>> /\ vres = <<>>
    /\ missing = <<>> /\ jobs = <<>> /\ jstate = <<>> /\ chan = "none"
    /\ job = 0 /\ log = <<>>

\* (c *Repo) Validate
RepoValidate ==
    /\ pc = "Validate"
    /\ ret' = ValidateError(repo)
    /\ pc' = "Validated"
    /\ UNCHANGED <<repo, upstream, disk, run, err, mkerr, keyring, files,
                   packages, vres, missing, jobs, jstate, chan, job, log>>

\* (c *YumRepoMirror) Validate: default to ID if name not set
YumRepoMirrorValidate ==
    /\ pc = "Validate"
    /\ ret' = ValidateError(repo)
    /\ repo' = IF ValidateError(repo) = "nil" /\ repo.Name = ""
               THEN [repo EXCEPT !.Name = repo.ID]
               ELSE repo
    /\ pc' = "Validated"
    /\ UNCHANGED <<upstream, disk, run, err, mkerr, keyring, files,
                   packages, vres, missing, jobs, jstate, chan, job, log>>

NextValidate == RepoValidate \/ YumRepoMirrorValidate

SpecValidate == InitValidate /\ [][NextValidate]_vars

----------------------------------------------------------------------------
(* Properties *)

Returned == pc = "Return"

\* the completion loop ran the gpg check on the file of job j and it failed
SigFailed(j) == log[j] \in {"ErrGPG", "ErrGPG+ErrRemove"}

\* the file that job j downloaded is in the package directory
Holds(j) == disk[jobs[j].Path].exists /\ disk[jobs[j].Path].by = j

(* C1 as stated: when a Sync with GPG checking returns, no downloaded file  *)
(* whose signature check failed is in the package directory.                *)
C1_FailClosedAlways ==
    (Returned /\ repo.GPGCheck) =>
        \A j \in JobIds : SigFailed(j) => ~Holds(j)

(* C1 amended: when a Sync with GPG checking returns, a downloaded file     *)
(* whose signature check failed is not in the package directory unless its  *)
(* deletion failed, which the log of the job reports.                       *)
C1_FailClosedUnlessRemoveFails ==
    (Returned /\ repo.GPGCheck) =>
        \A j \in JobIds :
            (SigFailed(j) /\ Holds(j)) => log[j] = "ErrGPG+ErrRemove"

\* a Sync with GPG checking has returned after two jobs failed the check
\* and their files were deleted
C1_Witness ==
    /\ Returned /\ repo.GPGCheck
    /\ \E i, j \in JobIds :
         /\ i # j
         /\ log[i] = "ErrGPG" /\ log[j] = "ErrGPG"
         /\ ~disk[jobs[i].Path].exists /\ ~disk[jobs[j].Path].exists

\* the loop over packages is over and the jobs are not yet built
DiffOver == pc = "Diff" /\ Len(vres) = Len(packages)

\* the package directory holds a file of package p's name and checksum
ValidOnDisk(p) == disk[JoinPath(p)].exists /\ disk[JoinPath(p)].sum = p.sum

\* no checksum validation of the diff loop ended in an error of its own
NoValidationError == \A k \in 1 .. Len(vres) : vres[k] # "ErrIO"

(* C2 as stated: a second Sync in a row, after a first one that returned    *)
(* nil, with the same primary database and the package directory as the     *)
(* first left it and every file of it readable, schedules no download.      *)
C2_SecondRunSchedulesNothing ==
    (run >= 2 /\ DiffOver /\ NoValidationError) => missing = <<>>

(* C2 amended: a second Sync in a row schedules no download when the first  *)
(* left, for every filtered package, a file of its name with its checksum,  *)
(* and no checksum validation of the second run ends in an error.           *)
C2_SecondRunIdempotent ==
    (run >= 2 /\ DiffOver /\ NoValidationError) =>
        ( (\A k \in 1 .. Len(packages) : ValidOnDisk(packages[k]))
          => missing = <<>> )

\* the second run has searched the directory for two or more packages and
\* found every one of them
C2_Witness ==
    /\ run = 2 /\ DiffOver
    /\ Len(packages) >= 2
    /\ \A k \in 1 .. Len(packages) : vres[k] = "nil"
    /\ missing = <<>>

\* the step that ends the diff and builds the jobs
ScheduleStep == DiffOver /\ pc' = "Await"

\* the jobs built from the entry of database key k
JobsOf(js, k) == {j \in 1 .. Len(js) : js[j].Label = k}

\* the search found a file of the package's name that failed the validation
Invalid(r) == r \in {"ErrChecksumMismatch", "ErrIO"}

(* C3: every filtered package whose same-named local file fails the         *)
(* checksum validation, by a mismatch or by an error, is put on the missing *)
(* list once, and exactly one download job is built for it.                 *)
C3_InvalidLocalFileRescheduled ==
    [][ScheduleStep =>
          \A k \in 1 .. Len(packages) :
              Invalid(vres[k]) =>
                  /\ Cardinality({i \in 1 .. Len(missing) : missing[i] = packages[k]}) = 1
                  /\ Cardinality(JobsOf(jobs', packages[k].key)) = 1
                  /\ \A j \in JobsOf(jobs', packages[k].key) :
                         jobs'[j] = NewJob(packages[k])]_vars

\* jobs wait for the files of two names of the listing, and the last
\* validation ended in an error other than a mismatch
C3_Witness ==
    /\ pc = "Await" /\ chan = "open"
    /\ \A j \in JobIds : jstate[j] = "queued"
    /\ {jobs[j].Path : j \in JobIds} = Names
    /\ \A j \in JobIds : jobs[j].Path \in files
    /\ err = "ErrIO"

\* the keys of the entries of a list, in order
Keys(s) == [i \in 1 .. Len(s) |-> s[i].key]

\* the first n packages that the search did not find valid, in order
RECURSIVE NotFound(_)
NotFound(n) ==
    IF n = 0 THEN <<>>
    ELSE NotFound(n - 1) \o (IF vres[n] = "nil" THEN <<>> ELSE <<packages[n]>>)

\* after the diff: package k was satisfied, so no job was built for it
Satisfied(k) == \A i \in 1 .. Len(missing) : missing[i] # packages[k]

\* the file at the path of package p is the one the run found there
Untouched(p) == disk[JoinPath(p)].exists /\ disk[JoinPath(p)].by = 0

(* C4 as stated: the jobs are exactly the filtered packages without a       *)
(* same-named local file of valid checksum, one job each in list order; a   *)
(* satisfied package gets no job and its file is the one the run found,     *)
(* from the diff to the return of Sync.                                     *)
C4_ExactSchedulingAndUntouched ==
    /\ DiffOver => missing = NotFound(Len(packages))
    /\ chan # "none" =>
         /\ [j \in JobIds |-> jobs[j].Label] = Keys(missing)
         /\ \A j \in JobIds : [jobs[j] EXCEPT !.Error = "nil"] = NewJob(missing[j])
         /\ \A k \in 1 .. Len(packages) :
                Satisfied(k) => Untouched(packages[k])

\* the positions of the setup steps
SetupPC == {"LoadKeyring", "CacheLocal", "PrimaryDB", "MkdirAll", "ReadDir", "Packages"}

\* Sync returned an error
ReturnedError == ret \notin {"none", "nil"}

\* no job has been built and Download has not been started
NothingScheduled ==
    missing = <<>> /\ jobs = <<>> /\ jstate = <<>> /\ chan = "none"

(* C5: a setup step that fails (keyring, metadata cache, primary database,  *)
(* package directory, directory listing, package list) makes Sync return    *)
(* an error on the spot, and whenever Sync returns an error no job has been *)
(* built and Download has not been started.                                 *)
C5_SetupErrorsFatalBeforeJobs ==
    [][ /\ (pc \in SetupPC /\ (err' # "nil" \/ mkerr' # "nil")) =>
              (pc' = "Return" /\ ReturnedError' /\ NothingScheduled')
        /\ ReturnedError' => (pc' = "Return" /\ NothingScheduled') ]_vars

\* the load of the package list failed after a directory with files was listed
C5_Witness ==
    /\ Returned /\ ret = "ErrReadingPrimaryDB" /\ err = "ErrPackages"
    /\ files # {}
    /\ NothingScheduled

\* every job has been received and handled by the completion loop
AllReported == \A j \in JobIds : jstate[j] = "reported" /\ log[j] # "none"

(* C6: once the setup has succeeded Sync reaches its return with nil,       *)
(* whatever jobs failed to download or to verify: it never returns an error *)
(* after the setup, and it returns only when every job has been received    *)
(* and handled.                                                             *)
C6_JobFailuresNotFatal ==
    /\ [](ReturnedError => NothingScheduled)
    /\ []((Returned /\ ret = "nil") => (chan = "closed" /\ AllReported))
    /\ (pc = "Diff") ~> (Returned /\ ret = "nil")

\* Sync returned nil after a failed transfer, a failed open and a failed
\* gpg check
C6_Witness ==
    /\ Returned /\ ret = "nil"
    /\ {"ErrDownload", "ErrOpen", "ErrGPG"} \subseteq {log[j] : j \in JobIds}

\* some transfer failed
SomeTransferFailed == \E j \in JobIds : jobs[j].Error # "nil"

(* C7: when the transfer of a job fails, every job is still reported on     *)
(* the channel, each with its own outcome, and the channel is closed.       *)
C7_FailureIsolation ==
    /\ [](\A j \in JobIds :
            (jstate[j] = "reported" /\ log[j] # "none") =>
                (log[j] = "ErrDownload" <=> jobs[j].Error # "nil"))
    /\ SomeTransferFailed ~> (chan = "closed" /\ AllReported)

\* the channel is closed after one job failed its transfer and two others
\* were downloaded and passed the check
C7_Witness ==
    /\ chan = "closed"
    /\ \E i, j, k \in JobIds :
         /\ i # j /\ j # k /\ i # k
         /\ jobs[i].Error # "nil" /\ log[i] = "ErrDownload"
         /\ log[j] = "ok" /\ log[k] = "ok"

(* C8: a job that has been reported is never reported again, the channel    *)
(* is closed only when every job has been reported, also when there is no   *)
(* job, and once the channel is made the receive loop ends.                 *)
C8_CompletionProtocol ==
    /\ [][\A j \in JobIds : jstate[j] = "reported" => jstate'[j] = "reported"]_vars
    /\ [](chan = "closed" => \A j \in JobIds : jstate[j] = "reported")
    /\ [](Returned /\ ret = "nil" => chan = "closed")
    /\ (chan = "open") ~> (Returned /\ chan = "closed")

\* the loop has ended after more jobs than there are workers
C8_Witness ==
    /\ Returned /\ chan = "closed"
    /\ Len(jobs) > NumWorkers
    /\ \A j \in JobIds : jstate[j] = "reported"

\* every job was downloaded, opened and passed the gpg check
AllJobsOk == \A j \in JobIds : log[j] = "ok"

\* every file of the directory that this run wrote has the checksum that
\* the job that wrote it declares
DeclaredContent ==
    \A n \in Names : disk[n].by # 0 => disk[n].sum = jobs[disk[n].by].Checksum

(* C9 as stated: when Sync returns nil and every job was downloaded with    *)
(* the declared content and verified, every filtered package has a file of  *)
(* its base name whose checksum is the declared one.                        *)
C9_MirrorComplete ==
    (Returned /\ ret = "nil" /\ AllJobsOk /\ DeclaredContent) =>
        \A k \in 1 .. Len(packages) : ValidOnDisk(packages[k])

\* job j is the only job of its destination path
OwnPath(j) == \A i \in JobIds : jobs[i].Path = jobs[j].Path => i = j

(* C10 as stated: when Sync returns, no file is at the destination path of  *)
(* a job whose transfer failed.                                             *)
C10_FailedTransferLeavesNoFile ==
    (Returned /\ ret = "nil") =>
        \A j \in JobIds : jobs[j].Error # "nil" => ~disk[jobs[j].Path].exists

(* C10 amended: for a job whose transfer failed the completion loop logs    *)
(* the error and goes on, without a file operation; a file that the run     *)
(* found at the job's path is, when Sync returns, still there or replaced   *)
(* by what the failed transfer wrote, unless another job has the same path. *)
C10_FailedTransferOnlyLogged ==
    /\ [][\A j \in JobIds :
            (jstate[j] = "ready" /\ jstate'[j] = "reported" /\ jobs[j].Error # "nil")
                => (disk' = disk /\ pc' = "Await" /\ log'[j] = "ErrDownload")]_vars
    /\ []((Returned /\ ret = "nil") =>
            \A j \in JobIds :
                (jobs[j].Error # "nil" /\ OwnPath(j) /\ jobs[j].Path \in files) =>
                    (disk[jobs[j].Path].exists /\ disk[jobs[j].Path].by \in {0, j}))

\* Sync returned with the file it found, of another checksum than declared,
\* still at the path of a job whose transfer failed
C10_Witness ==
    /\ Returned /\ ret = "nil"
    /\ \E j \in JobIds :
         /\ jobs[j].Error # "nil" /\ log[j] = "ErrDownload"
         /\ jobs[j].Path \in files
         /\ disk[jobs[j].Path].exists /\ disk[jobs[j].Path].by = 0
         /\ disk[jobs[j].Path].sum # jobs[j].Checksum

\* the descriptor is one that Validate rejects
Rejected(d) == d.ID = "" \/ (d.BaseURL = "" /\ d.MirrorURL = "")

\* Validate has acted in this step and returned r
ValidateReturns(r) ==
    /\ (pc = "Validate" /\ pc' = "Validated")
    /\ (r # "nil" <=> Rejected(repo))
    /\ (repo.ID = "" => r = "ErrNoID")
    /\ [repo' EXCEPT !.Name = repo.Name] = repo

(* C11 as stated: YumRepoMirror.Validate returns an error if and only if    *)
(* the ID is empty or both URLs are empty, the empty ID first; it changes   *)
(* no field but the name, and a name that was empty is the ID afterwards.   *)
C11_ValidateSetsEmptyName ==
    [][YumRepoMirrorValidate =>
          /\ ValidateReturns(ret')
          /\ repo'.Name = (IF repo.Name = "" THEN repo.ID ELSE repo.Name)]_vars

(* C11 amended: both Validate methods return an error if and only if the    *)
(* ID is empty or both URLs are empty, the empty ID first, and change no    *)
(* field but the name; YumRepoMirror.Validate sets a name that was empty to *)
(* the ID when it returns nil and leaves a rejected descriptor as it was;   *)
(* Repo.Validate changes nothing.                                           *)
C11_ValidateSetsEmptyNameOnSuccess ==
    [][ /\ YumRepoMirrorValidate =>
              /\ ValidateReturns(ret')
              /\ repo'.Name = (IF repo.Name = "" /\ ret' = "nil"
                               THEN repo.ID ELSE repo.Name)
        /\ RepoValidate => (ValidateReturns(ret') /\ repo' = repo) ]_vars

\* Validate returned nil for a descriptor with the mirror list as its only
\* URL, and the name is the ID: no descriptor is given a name that is an ID,
\* so the name was empty
C11_Witness ==
    /\ pc = "Validated" /\ ret = "nil"
    /\ repo.BaseURL = "" /\ repo.MirrorURL # ""
    /\ repo.ID # "" /\ repo.Name = repo.ID

\* the entries of a list
Range(s) == {s[i] : i \in 1 .. Len(s)}

\* the package list has been loaded and filtered
Filtered == pc \in {"Diff", "Await", "Remove"}

\* what the filter leaves is of the database, without source packages
\* unless they are included, and inside the date bounds that are set
FilterKeeps(c, res, pkgs) ==
    /\ Range(res) \subseteq Range(pkgs)
    /\ Len(res) <= Len(pkgs)
    /\ ~c.IncludeSources => \A p \in Range(res) : p.arch # "src"
    /\ c.MinDate # 0 => \A p \in Range(res) : p.time >= c.MinDate
    /\ c.MaxDate # 0 => \A p \in Range(res) : p.time <= c.MaxDate

\* the diff and the jobs are of the filtered list only
OnlyFiltered ==
    /\ Len(vres) <= Len(packages)
    /\ Range(missing) \subseteq Range(packages)
    /\ \A j \in JobIds : \E p \in Range(packages) : jobs[j] = NewJob(p)

(* C12 as stated: the filtered list is a part of the database with no       *)
(* source package unless sources are included, no entry outside the date    *)
(* bounds that are set and no entry of another architecture than the one    *)
(* that is set; Sync diffs and schedules packages of the filtered list only.*)
C12_FilterOnlyThatArchitecture ==
    Filtered =>
        /\ FilterKeeps(repo, packages, upstream)
        /\ repo.Architecture # "" =>
               \A p \in Range(packages) : p.arch = repo.Architecture
        /\ OnlyFiltered

(* C12 amended: the same, where an entry of the filtered list has the       *)
(* architecture that is set or is architecture-independent.                 *)
C12_FilterCorrect ==
    Filtered =>
        /\ FilterKeeps(repo, packages, upstream)
        /\ repo.Architecture # "" =>
               \A p \in Range(packages) : p.arch \in {repo.Architecture, "noarch"}
        /\ OnlyFiltered

\* jobs are built after a filter with an architecture and a lower date
\* bound dropped entries and kept an architecture-independent one
C12_Witness ==
    /\ pc = "Await" /\ jobs # <<>>
    /\ repo.Architecture # "" /\ repo.MinDate # 0 /\ ~repo.IncludeSources
    /\ Len(packages) < Len(upstream)
    /\ \E p \in Range(packages) : p.arch = "noarch"
    /\ \E p \in Range(upstream) : p.arch \notin {repo.Architecture, "noarch"}

(* C13 as stated: in a Sync without GPG checking no keyring is loaded, the  *)
(* signature check is applied to no job, and the completion loop deletes no *)
(* file.                                                                    *)
C13_NoSignatureCheckWhenDisabled ==
    ~repo.GPGCheck =>
        /\ keyring = "nil"
        /\ pc # "Remove"
        /\ \A j \in JobIds : ~SigFailed(j)

\* the files that jobs in transfer are writing
BeingWritten == {jobs[j].Path : j \in {i \in JobIds : jstate[i] = "xfer"}}

(* C14 as stated: no two jobs of a run have the same destination path, and  *)
(* no two transfers in flight write the same file.                          *)
C14_DistinctDestinations ==
    /\ \A i, j \in JobIds : jobs[i].Path = jobs[j].Path => i = j
    /\ Cardinality(BeingWritten) = Cardinality({i \in JobIds : jstate[i] = "xfer"})

(* C15 as stated: the completion loop handles a job, and deletes its file,  *)
(* only once the job is reported; it deletes only for a job reported        *)
(* without an error; and the file it is about to delete is not one that a   *)
(* transfer in flight is writing.                                           *)
C15_VerifyAfterCompletion ==
    /\ \A j \in JobIds : log[j] # "none" => jstate[j] = "reported"
    /\ pc = "Remove" =>
          /\ jstate[job] = "reported"
          /\ jobs[job].Error = "nil"
          /\ jobs[job].Path \notin BeingWritten

(* C16: at most NumWorkers transfers are in flight, however many jobs there *)
(* are, and with more jobs than workers every job is still transferred and  *)
(* reported.                                                                *)
C16_BoundedParallelism ==
    /\ [](Cardinality(InFlight) <= NumWorkers)
    /\ (chan = "open" /\ Len(jobs) > NumWorkers)
           ~> (\A j \in JobIds : jstate[j] = "reported")

\* every worker is busy with a transfer while a job waits in the queue
C16_Witness ==
    /\ Len(jobs) > NumWorkers
    /\ Cardinality({j \in JobIds : jstate[j] = "xfer"}) = NumWorkers
    /\ \E j \in JobIds : jstate[j] = "queued"

(* C17 as stated: a downloaded file whose checksum is not the one the job   *)
(* declares is never accepted by the completion loop, and is reported as a  *)
(* checksum mismatch.                                                       *)
C17_ChecksumCheckedAfterDownload ==
    \A j \in JobIds :
        (jstate[j] = "reported" /\ jobs[j].Error = "nil" /\ Holds(j)
         /\ disk[jobs[j].Path].sum # jobs[j].Checksum)
            => log[j] = "ErrChecksumMismatch"

(* C18: from the listing of the package directory to the end of the diff    *)
(* no file is created, changed or deleted, a file that failed the checksum  *)
(* validation included; the listing is taken in one step, before any job    *)
(* is built, and is what the directory holds then.                          *)
C18_DiffReadOnly ==
    [][ /\ (pc \in {"ReadDir", "Packages", "Diff"}) => disk' = disk
        /\ (files' # files) =>
              /\ pc = "ReadDir" /\ NothingScheduled
              /\ files' = {n \in Names : disk[n].exists} ]_vars

\* the diff is over, and a listed file that failed the checksum validation
\* is in the directory as the run found it
C18_Witness ==
    /\ DiffOver
    /\ \E k \in 1 .. Len(packages) :
         /\ vres[k] = "ErrChecksumMismatch"
         /\ BaseName(packages[k]) \in files
         /\ Untouched(packages[k])
         /\ ~ValidOnDisk(packages[k])

\* the place of a position of Sync in the order of its statements
Rank(p) ==
    CASE p = "LoadKeyring" -> 1
      [] p = "CacheLocal" -> 2
      [] p = "PrimaryDB" -> 3
      [] p = "MkdirAll" -> 4
      [] p = "ReadDir" -> 5
      [] p = "Packages" -> 6
      [] p = "Diff" -> 7
      [] p = "Await" -> 8
      [] p = "Remove" -> 8
      [] OTHER -> 9

\* Sync never goes back: the keyring, the metadata cache, the package list
\* and its filter, the diff, the jobs, the completion loop, the return
ForwardOnly == Rank(pc') >= Rank(pc)

\* the package list has been loaded from the primary database
PackageListLoaded == Rank(pc) > Rank("Packages")

\* this step creates or lists the package directory
DirectoryAccess == pc \in {"MkdirAll", "ReadDir"} /\ pc' # pc

\* this step filters the package list, runs the diff or builds the jobs
FilterOrDiff ==
    packages' # packages \/ vres' # vres \/ missing' # missing \/ jobs' # jobs

(* C19 as stated: Sync goes through its states in order and never back,     *)
(* and creates and lists the package directory, filters and diffs only      *)
(* after the package list has been loaded.                                  *)
C19_ForwardOnlyDirectoryAfterList ==
    [][ /\ ForwardOnly
        /\ DirectoryAccess => PackageListLoaded
        /\ FilterOrDiff => (PackageListLoaded \/ pc = "Packages") ]_vars

(* C19 amended: Sync goes through its states in order and never back; it    *)
(* creates and lists the package directory after the primary database has   *)
(* been opened and before the package list is loaded from it, and filters   *)
(* and diffs only after the package list has been loaded.                   *)
C19_ForwardOnlyDirectoryBeforeList ==
    [][ /\ ForwardOnly
        /\ DirectoryAccess => (Rank(pc) > Rank("PrimaryDB") /\ ~PackageListLoaded)
        /\ FilterOrDiff => (PackageListLoaded \/ pc = "Packages") ]_vars

\* Sync has returned nil after every state, the deletion of a file included
C19_Witness ==
    /\ Returned /\ ret = "nil"
    /\ files # {} /\ packages # <<>>
    /\ \E j \in JobIds : log[j] = "ErrGPG" /\ ~disk[jobs[j].Path].exists
    /\ \E j \in JobIds : log[j] = "ok"

\* a package of the filtered list has the path n and was found valid there
SatisfiedAt(n) ==
    \E k \in 1 .. Len(packages) : JoinPath(packages[k]) = n /\ Satisfied(k)

(* C20 as stated: a file goes from the package directory only when the      *)
(* completion loop deletes the destination of its current job, a job        *)
(* reported without an error whose signature check failed; the path is not  *)
(* that of a satisfied package, nor outside the jobs, nor the destination   *)
(* of a job reported with an error.                                         *)
C20_DeletionFrame ==
    [][\A n \in Names :
          (disk[n].exists /\ ~disk'[n].exists) =>
              /\ pc = "Remove" /\ jobs[job].Path = n
              /\ jobs[job].Error = "nil" /\ SigFailed(job)
              /\ ~SatisfiedAt(n)
              /\ \A i \in JobIds : jobs[i].Path = n => jobs[i].Error = "nil" ]_vars

====
